---- MODULE Spec2Model ----
(***************************************************************************)
(* Acquisition worker model of ocean_optics/gui.py: the two QThread        *)
(* workers (IntegrateSpectrumWorker, ContinuousSpectrumWorker), the        *)
(* UserInterface slots that start and stop them, and the queued            *)
(* signal/slot connections that carry new_data, progress and finished      *)
(* from the worker threads to the GUI thread.                              *)
(***************************************************************************)
EXTENDS Integers, Sequences, FiniteSets, TLC

\* ---------------------------------------------------------------- bounds
\* Largest value of the num_integrations spin box that is explored.
MaxCount == 2
\* Largest number of posted, not yet delivered events in the GUI thread's queue.
MaxQueue == 2
\* Value at which the per-run emission counters saturate.
MaxEmit == 3

Integrate == "integrate"
Continuous == "continuous"
Workers == {Integrate, Continuous}
Counts == 0..MaxCount
\* Values of the integration_time spin box that are explored.
IntegrationTimes == {50, 100}
\* Raw scan values that are explored.
RawValues == {1, 3}

Min(a, b) == IF a < b THEN a ELSE b

VARIABLES
    pc,          \* position of each worker thread
    stopped,     \* MeasurementWorker.stopped of each worker
    count,       \* IntegrateSpectrumWorker.count
    idx,         \* steps yielded so far by experiment.integrate_spectrum (enumerate idx)
    exp_stopped, \* SpectroscopyExperiment.stopped
    queue,       \* events posted to the GUI thread by queued connections
    ui,          \* enabled state of the four buttons and the progress bar
    plotted,     \* the sink's last sample (_wavelengths/_intensities)
    stopReq,     \* history: stop() was routed to the worker during its current run
    stopStep,    \* history: the Integrate step whose flag check follows the first stop request
    emitted,     \* history: Spectrum emissions of the worker's current run (saturating)
    afterStop,   \* history: Spectrum emissions after the run's first stop request (saturating)
    log,         \* history: the events emitted by the current Integrate run, in order
    failed,      \* history: the current run's device read raised DeviceError
    uncaught,    \* history: an exception has left run() without being handled
    nfin,        \* history: finished notifications handled since the worker's last start
    integration_time, \* integration time applied to the device (experiment.set_integration_time)
    device,      \* the raw scans the device returns, one value standing for a scan's intensities
    acc,         \* sum of the raw scans taken so far by experiment.integrate_spectrum
    delivered,   \* history: Spectrum values of the worker's current run handled by the sink (saturating)
    stale,       \* history: the run in progress was started with a stop signal of an earlier request still set
    inflight     \* history: what became of the Continuous read in flight at the run's first stop request

vars == <<pc, stopped, count, idx, exp_stopped, queue, ui, plotted,
          stopReq, stopStep, emitted, afterStop, log, failed, uncaught, nfin,
          integration_time, device, acc, delivered, stale, inflight>>

cfg == <<integration_time, device>>

obs == <<delivered, stale, inflight>>

hist == <<stopReq, stopStep, emitted, afterStop, log, failed, uncaught, nfin>>

\* ---------------------------------------------------------------- helpers
\* QThread.isRunning(): true from start() until run() has returned and the
\* thread is finishing.
isRunning(w) == pc[w] # "idle"

\* Mutant: a Spectrum not yet delivered is overwritten by the next one of the
\* same worker.
emit_coalescing(q, m) ==
    IF /\ q # <<>> /\ m.type = "new_data"
       /\ q[Len(q)].type = "new_data" /\ q[Len(q)].w = m.w
       THEN [q EXCEPT ![Len(q)] = m]
       ELSE Append(q, m)

\* Signal.emit across threads: the slot call is appended to the receiver
\* thread's event queue.
emit(q, m) == Append(q, m)

\* MeasurementWorker.stop
stop(s, w) == [s EXCEPT ![w] = TRUE]

\* Mutant: the continuous button is left enabled.
disable_measurement_buttons_keeps_continuous(u) ==
    [u EXCEPT !.single_button = FALSE,
              !.integrate_button = FALSE,
              !.stop_button = TRUE]

\* Mutant: the stop button is not enabled.
disable_measurement_buttons_forgets_stop(u) ==
    [u EXCEPT !.single_button = FALSE,
              !.integrate_button = FALSE,
              !.continuous_button = FALSE]

\* UserInterface.disable_measurement_buttons
disable_measurement_buttons(u) ==
    [u EXCEPT !.single_button = FALSE,
              !.integrate_button = FALSE,
              !.continuous_button = FALSE,
              !.stop_button = TRUE]

\* Mutant: the start buttons are not enabled again.
worker_has_finished_keeps_disabled(u) ==
    [u EXCEPT !.stop_button = FALSE]

\* UserInterface.worker_has_finished
worker_has_finished(u) ==
    [u EXCEPT !.single_button = TRUE,
              !.integrate_button = TRUE,
              !.continuous_button = TRUE,
              !.stop_button = FALSE]

\* QProgressBar.setRange / setMinimum+setMaximum
setRange(u, lo, hi) == [u EXCEPT !.pb_min = lo, !.pb_max = hi]

\* QProgressBar.setValue
setValue(u, v) == [u EXCEPT !.pb_value = v]

\* QThread.start(): a thread that is already running is left alone.
start(p, w) == IF p[w] # "idle" THEN p ELSE [p EXCEPT ![w] = "started"]

NoSample == [w |-> "none", idx |-> 0, val |-> <<0, 0>>]

\* The n-th scan read from the device in a run.
Raw(n) == device[((n - 1) % Len(device)) + 1]

\* A mean as the pair <<sum, number of scans>>.
Mean(sum, n) == <<sum, n>>

\* ---------------------------------------------------------------- initial state
\* The state after UserInterface.__init__: no thread started, nothing plotted,
\* the class attribute stopped = False on both workers, and the window in the
\* state worker_has_finished restores (start buttons enabled, stop disabled).
InitState ==
    /\ pc = [w \in Workers |-> "idle"]
    /\ stopped = [w \in Workers |-> FALSE]
    /\ count = 0
    /\ idx = 0
    /\ exp_stopped = FALSE
    /\ queue = <<>>
    /\ ui = [single_button |-> TRUE, integrate_button |-> TRUE,
             continuous_button |-> TRUE, stop_button |-> FALSE,
             pb_min |-> 0, pb_max |-> 1, pb_value |-> 0]
    /\ plotted = NoSample
    /\ stopReq = [w \in Workers |-> FALSE]
    /\ stopStep = 0
    /\ emitted = [w \in Workers |-> 0]
    /\ afterStop = [w \in Workers |-> 0]
    /\ log = <<>>
    /\ failed = [w \in Workers |-> FALSE]
    /\ uncaught = [w \in Workers |-> FALSE]
    /\ nfin = [w \in Workers |-> 0]
    /\ integration_time \in IntegrationTimes
    /\ acc = 0
    /\ delivered = [w \in Workers |-> 0]
    /\ stale = FALSE
    /\ inflight = "none"

\* A device whose n-th scan of a run has the value n.
TestSignal == [i \in 1..MaxCount |-> i]

Init == InitState /\ device = TestSignal

\* History reset made when a start call begins a new run of worker w: the
\* history variables describe the latest run.
NewRun(w) ==
    /\ stopReq' = [v \in Workers |-> FALSE]
    /\ stopStep' = 0
    /\ emitted' = [v \in Workers |-> 0]
    /\ afterStop' = [v \in Workers |-> 0]
    /\ log' = <<>>
    /\ failed' = [v \in Workers |-> FALSE]
    /\ uncaught' = [v \in Workers |-> FALSE]
    /\ nfin' = [nfin EXCEPT ![w] = 0]
    /\ delivered' = [v \in Workers |-> 0]
    /\ stale' = (stopped[w] \/ (w = Integrate /\ exp_stopped))
    /\ inflight' = "none"

\* ---------------------------------------------------------------- GUI thread
\* UserInterface.single_measurement (clicked of single_button)
single_measurement ==
    /\ ui.single_button
    /\ \E ok \in BOOLEAN :
          /\ ui' = setRange(ui, 0, 1)
          /\ plotted' = IF ok THEN [w |-> "single", idx |-> 1, val |-> Mean(Raw(1), 1)]
                        ELSE plotted
    /\ UNCHANGED <<pc, stopped, count, idx, exp_stopped, queue, hist, cfg, acc, obs>>

\* UserInterface.set_integration_time (valueChanged of the integration_time
\* spin box, which no slot ever disables)
set_integration_time ==
    /\ \E value \in IntegrationTimes :
          /\ value # integration_time
          /\ integration_time' = value
    /\ UNCHANGED <<pc, stopped, count, idx, exp_stopped, queue, ui, plotted, hist,
                   device, acc, obs>>

\* UserInterface.integrate_spectrum (clicked of integrate_button)
integrate_spectrum ==
    /\ ui.integrate_button
    /\ \E c \in Counts :
          /\ ui' = setValue(setRange(disable_measurement_buttons(ui), 0, c), 0)
          /\ count' = c
    /\ pc' = start(pc, Integrate)
    /\ NewRun(Integrate)
    /\ UNCHANGED <<stopped, idx, exp_stopped, queue, plotted, cfg, acc>>

\* UserInterface.continuous_spectrum (clicked of continuous_button)
continuous_spectrum ==
    /\ ui.continuous_button
    /\ ui' = setRange(disable_measurement_buttons(ui), 0, 0)
    /\ pc' = start(pc, Continuous)
    /\ NewRun(Continuous)
    /\ UNCHANGED <<stopped, count, idx, exp_stopped, queue, plotted, cfg, acc>>

\* The Integrate step whose flag check is the next one the worker makes.
NextCheck == IF pc[Integrate] \in {"started", "next", "reading"} THEN idx + 1
             ELSE IF pc[Integrate] \in {"emit_data", "emit_progress", "check"} THEN idx
             ELSE 0

\* Mutant: stop() is called on both workers.
stop_measurement_stops_both ==
    /\ ui.stop_button
    /\ stopped' = stop(stop(stopped, Continuous), Integrate)
    /\ IF isRunning(Continuous)
          THEN /\ ui' = setRange(ui, 0, 1)
               /\ stopReq' = [stopReq EXCEPT ![Continuous] = TRUE]
               /\ inflight' = IF ~stopReq[Continuous] /\ pc[Continuous] = "reading"
                                 THEN "owed" ELSE inflight
               /\ UNCHANGED stopStep
          ELSE /\ ui' = ui
               /\ stopReq' = [stopReq EXCEPT ![Integrate] = @ \/ isRunning(Integrate)]
               /\ stopStep' = IF isRunning(Integrate) /\ ~stopReq[Integrate]
                                 THEN NextCheck ELSE stopStep
               /\ UNCHANGED inflight
    /\ UNCHANGED <<pc, count, idx, exp_stopped, queue, plotted,
                   emitted, afterStop, log, failed, uncaught, nfin,
                   cfg, acc, delivered, stale>>

\* Mutant: the progress bar range is reset on both branches.
stop_measurement_resets_range ==
    /\ ui.stop_button
    /\ ui' = setRange(ui, 0, 1)
    /\ IF isRunning(Continuous)
          THEN /\ stopped' = stop(stopped, Continuous)
               /\ stopReq' = [stopReq EXCEPT ![Continuous] = TRUE]
               /\ inflight' = IF ~stopReq[Continuous] /\ pc[Continuous] = "reading"
                                 THEN "owed" ELSE inflight
               /\ UNCHANGED stopStep
          ELSE /\ stopped' = stop(stopped, Integrate)
               /\ stopReq' = [stopReq EXCEPT ![Integrate] = @ \/ isRunning(Integrate)]
               /\ stopStep' = IF isRunning(Integrate) /\ ~stopReq[Integrate]
                                 THEN NextCheck ELSE stopStep
               /\ UNCHANGED inflight
    /\ UNCHANGED <<pc, count, idx, exp_stopped, queue, plotted,
                   emitted, afterStop, log, failed, uncaught, nfin,
                   cfg, acc, delivered, stale>>

\* UserInterface.stop_measurement (clicked of stop_button)
stop_measurement ==
    /\ ui.stop_button
    /\ IF isRunning(Continuous)
          THEN /\ stopped' = stop(stopped, Continuous)
               /\ ui' = setRange(ui, 0, 1)
               /\ stopReq' = [stopReq EXCEPT ![Continuous] = TRUE]
               /\ inflight' = IF ~stopReq[Continuous] /\ pc[Continuous] = "reading"
                                 THEN "owed" ELSE inflight
               /\ UNCHANGED stopStep
          ELSE /\ stopped' = stop(stopped, Integrate)
               /\ ui' = ui
               /\ stopReq' = [stopReq EXCEPT ![Integrate] = @ \/ isRunning(Integrate)]
               /\ stopStep' = IF isRunning(Integrate) /\ ~stopReq[Integrate]
                                 THEN NextCheck ELSE stopStep
               /\ UNCHANGED inflight
    /\ UNCHANGED <<pc, count, idx, exp_stopped, queue, plotted,
                   emitted, afterStop, log, failed, uncaught, nfin,
                   cfg, acc, delivered, stale>>

\* Mutant: plot_data keeps the first sample it was given.
Deliver_keeps_first ==
    /\ queue # <<>>
    /\ LET m == Head(queue) IN
          /\ queue' = Tail(queue)
          /\ plotted' = IF m.type = "new_data" /\ plotted.w # m.w
                           THEN [w |-> m.w, idx |-> m.idx, val |-> m.val]
                        ELSE plotted
          /\ delivered' = IF m.type = "new_data"
                             THEN [delivered EXCEPT ![m.w] = Min(@ + 1, MaxEmit)]
                          ELSE delivered
          /\ ui' = IF m.type = "progress" THEN setValue(ui, m.idx)
                   ELSE IF m.type = "finished" THEN worker_has_finished(ui)
                   ELSE ui
          /\ nfin' = IF m.type = "finished"
                        THEN [nfin EXCEPT ![m.w] = Min(@ + 1, 2)] ELSE nfin
    /\ UNCHANGED <<pc, stopped, count, idx, exp_stopped,
                   stopReq, stopStep, emitted, afterStop, log, failed, uncaught,
                   cfg, acc, stale, inflight>>

\* The GUI thread's event loop delivers the oldest posted event to its slot:
\* plot_new_data, update_progress_bar or worker_has_finished.
Deliver ==
    /\ queue # <<>>
    /\ LET m == Head(queue) IN
          /\ queue' = Tail(queue)
          /\ plotted' = IF m.type = "new_data"
                           THEN [w |-> m.w, idx |-> m.idx, val |-> m.val]
                        ELSE plotted
          /\ delivered' = IF m.type = "new_data"
                             THEN [delivered EXCEPT ![m.w] = Min(@ + 1, MaxEmit)]
                          ELSE delivered
          /\ ui' = IF m.type = "progress" THEN setValue(ui, m.idx)
                   ELSE IF m.type = "finished" THEN worker_has_finished(ui)
                   ELSE ui
          /\ nfin' = IF m.type = "finished"
                        THEN [nfin EXCEPT ![m.w] = Min(@ + 1, 2)] ELSE nfin
    /\ UNCHANGED <<pc, stopped, count, idx, exp_stopped,
                   stopReq, stopStep, emitted, afterStop, log, failed, uncaught,
                   cfg, acc, stale, inflight>>

\* ---------------------------------------------------------------- worker threads
\* Spectrum and ProgressEvent messages carried by the queued signals.
NewData(w, i, v) == [type |-> "new_data", w |-> w, idx |-> i, val |-> v]
Progress(w, i) == [type |-> "progress", w |-> w, idx |-> i, val |-> <<0, 0>>]
Finished(w) == [type |-> "finished", w |-> w, idx |-> 0, val |-> <<0, 0>>]

\* History kept when worker w emits a Spectrum.
CountEmission(w) ==
    /\ emitted' = [emitted EXCEPT ![w] = Min(@ + 1, MaxEmit)]
    /\ afterStop' = [afterStop EXCEPT ![w] = IF stopReq[w] THEN Min(@ + 1, MaxEmit) ELSE @]

\* Mutant: run() without line 46.
IntegrateBegin_no_reset ==
    /\ pc[Integrate] = "started"
    /\ stopped' = stopped
    /\ idx' = 0
    /\ pc' = [pc EXCEPT ![Integrate] = "next"]
    /\ UNCHANGED <<count, exp_stopped, queue, ui, plotted, hist, cfg, acc, obs>>

\* Mutant: the loop body is entered before the series is asked for a scan.
IntegrateBegin_reads_first ==
    /\ pc[Integrate] = "started"
    /\ stopped' = [stopped EXCEPT ![Integrate] = FALSE]
    /\ idx' = 0
    /\ pc' = [pc EXCEPT ![Integrate] = "reading"]
    /\ UNCHANGED <<count, exp_stopped, queue, ui, plotted, hist, cfg, acc, obs>>

\* IntegrateSpectrumWorker.run, line 46 and the call that creates the generator.
IntegrateBegin ==
    /\ pc[Integrate] = "started"
    /\ stopped' = [stopped EXCEPT ![Integrate] = FALSE]
    /\ idx' = 0
    /\ pc' = [pc EXCEPT ![Integrate] = "next"]
    /\ UNCHANGED <<count, exp_stopped, queue, ui, plotted, hist, cfg, acc, obs>>

\* experiment.integrate_spectrum resumed by the for loop: the series clears its
\* own stop signal when it begins, and ends when the signal is set or count
\* scans have been taken; otherwise it reads the next scan.
IntegrateNext ==
    /\ pc[Integrate] = "next"
    /\ LET sig == IF idx = 0 THEN FALSE ELSE exp_stopped IN
          /\ exp_stopped' = sig
          /\ acc' = IF idx = 0 \/ sig \/ idx >= count THEN 0 ELSE acc
          /\ pc' = [pc EXCEPT ![Integrate] =
                        IF sig \/ idx >= count THEN "exit" ELSE "reading"]
    /\ UNCHANGED <<stopped, count, idx, queue, ui, plotted, hist, cfg, obs>>

\* The scan in flight completes: the series yields the running mean of the
\* scans so far, or the read raises DeviceError, which leaves run().
IntegrateRead ==
    /\ pc[Integrate] = "reading"
    /\ \E ok \in BOOLEAN :
          IF ok
             THEN /\ idx' = idx + 1
                  /\ acc' = acc + Raw(idx + 1)
                  /\ pc' = [pc EXCEPT ![Integrate] = "emit_data"]
                  /\ UNCHANGED <<failed, uncaught>>
             ELSE /\ idx' = idx
                  /\ acc' = 0
                  /\ pc' = [pc EXCEPT ![Integrate] = "exit"]
                  /\ failed' = [failed EXCEPT ![Integrate] = TRUE]
                  /\ uncaught' = [uncaught EXCEPT ![Integrate] = TRUE]
    /\ UNCHANGED <<stopped, count, exp_stopped, queue, ui, plotted,
                   stopReq, stopStep, emitted, afterStop, log, nfin, cfg, obs>>

\* IntegrateSpectrumWorker.run, line 50
IntegrateEmitData ==
    /\ pc[Integrate] = "emit_data"
    /\ Len(queue) < MaxQueue
    /\ queue' = emit(queue, NewData(Integrate, idx, Mean(acc, idx)))
    /\ CountEmission(Integrate)
    /\ log' = Append(log, <<"new_data", idx>>)
    /\ pc' = [pc EXCEPT ![Integrate] = "emit_progress"]
    /\ UNCHANGED <<stopped, count, idx, exp_stopped, ui, plotted,
                   stopReq, stopStep, failed, uncaught, nfin, cfg, acc, obs>>

\* Mutant: enumerate without start=1.
IntegrateEmitProgress_from_zero ==
    /\ pc[Integrate] = "emit_progress"
    /\ Len(queue) < MaxQueue
    /\ queue' = emit(queue, Progress(Integrate, idx - 1))
    /\ log' = Append(log, <<"progress", idx - 1>>)
    /\ pc' = [pc EXCEPT ![Integrate] = "check"]
    /\ UNCHANGED <<stopped, count, idx, exp_stopped, ui, plotted,
                   stopReq, stopStep, emitted, afterStop, failed, uncaught, nfin,
                   cfg, acc, obs>>

\* IntegrateSpectrumWorker.run, line 51
IntegrateEmitProgress ==
    /\ pc[Integrate] = "emit_progress"
    /\ Len(queue) < MaxQueue
    /\ queue' = emit(queue, Progress(Integrate, idx))
    /\ log' = Append(log, <<"progress", idx>>)
    /\ pc' = [pc EXCEPT ![Integrate] = "check"]
    /\ UNCHANGED <<stopped, count, idx, exp_stopped, ui, plotted,
                   stopReq, stopStep, emitted, afterStop, failed, uncaught, nfin,
                   cfg, acc, obs>>

\* IntegrateSpectrumWorker.run, lines 52-53
IntegrateCheck ==
    /\ pc[Integrate] = "check"
    /\ exp_stopped' = IF stopped[Integrate] THEN TRUE ELSE exp_stopped
    /\ pc' = [pc EXCEPT ![Integrate] = "next"]
    /\ UNCHANGED <<stopped, count, idx, queue, ui, plotted, hist, cfg, acc, obs>>

\* Mutant: run() without line 58.
ContinuousBegin_no_reset ==
    /\ pc[Continuous] = "started"
    /\ stopped' = stopped
    /\ pc' = [pc EXCEPT ![Continuous] = "reading"]
    /\ UNCHANGED <<count, idx, exp_stopped, queue, ui, plotted, hist, cfg, acc, obs>>

\* ContinuousSpectrumWorker.run, line 58 and the call of line 60
ContinuousBegin ==
    /\ pc[Continuous] = "started"
    /\ stopped' = [stopped EXCEPT ![Continuous] = FALSE]
    /\ pc' = [pc EXCEPT ![Continuous] = "reading"]
    /\ UNCHANGED <<count, idx, exp_stopped, queue, ui, plotted, hist, cfg, acc, obs>>

\* Mutant: the flag is tested between the read and the emission.
ContinuousRead_checks_first ==
    /\ pc[Continuous] = "reading"
    /\ \E ok \in BOOLEAN :
          IF ok
             THEN /\ pc' = [pc EXCEPT ![Continuous] =
                               IF stopped[Continuous] THEN "exit" ELSE "emit_data"]
                  /\ UNCHANGED <<failed, uncaught, inflight>>
             ELSE /\ pc' = [pc EXCEPT ![Continuous] = "exit"]
                  /\ failed' = [failed EXCEPT ![Continuous] = TRUE]
                  /\ uncaught' = [uncaught EXCEPT ![Continuous] = TRUE]
                  /\ inflight' = "none"
    /\ UNCHANGED <<stopped, count, idx, exp_stopped, queue, ui, plotted,
                   stopReq, stopStep, emitted, afterStop, log, nfin, cfg, acc,
                   delivered, stale>>

\* experiment.get_spectrum returns, or raises DeviceError, which leaves run().
ContinuousRead ==
    /\ pc[Continuous] = "reading"
    /\ \E ok \in BOOLEAN :
          IF ok
             THEN /\ pc' = [pc EXCEPT ![Continuous] = "emit_data"]
                  /\ UNCHANGED <<failed, uncaught, inflight>>
             ELSE /\ pc' = [pc EXCEPT ![Continuous] = "exit"]
                  /\ failed' = [failed EXCEPT ![Continuous] = TRUE]
                  /\ uncaught' = [uncaught EXCEPT ![Continuous] = TRUE]
                  /\ inflight' = "none"
    /\ UNCHANGED <<stopped, count, idx, exp_stopped, queue, ui, plotted,
                   stopReq, stopStep, emitted, afterStop, log, nfin, cfg, acc,
                   delivered, stale>>

\* ContinuousSpectrumWorker.run, line 61
ContinuousEmitData ==
    /\ pc[Continuous] = "emit_data"
    /\ Len(queue) < MaxQueue
    /\ LET n == Min(emitted[Continuous] + 1, MaxEmit) IN
          queue' = emit(queue, NewData(Continuous, n, Mean(Raw(n), 1)))
    /\ CountEmission(Continuous)
    /\ pc' = [pc EXCEPT ![Continuous] = "check"]
    /\ inflight' = IF inflight = "owed" THEN "emitted" ELSE inflight
    /\ UNCHANGED <<stopped, count, idx, exp_stopped, ui, plotted,
                   stopReq, stopStep, log, failed, uncaught, nfin, cfg, acc,
                   delivered, stale>>

\* ContinuousSpectrumWorker.run, lines 62-63 and the loop back to line 60
ContinuousCheck ==
    /\ pc[Continuous] = "check"
    /\ pc' = [pc EXCEPT ![Continuous] = IF stopped[Continuous] THEN "exit" ELSE "reading"]
    /\ UNCHANGED <<stopped, count, idx, exp_stopped, queue, ui, plotted, hist, cfg, acc, obs>>

\* Mutant: finished is connected directly, so worker_has_finished runs at once
\* instead of being queued behind the run's emissions.
ThreadFinish_direct(w) ==
    /\ pc[w] = "exit"
    /\ ui' = worker_has_finished(ui)
    /\ nfin' = [nfin EXCEPT ![w] = Min(@ + 1, 2)]
    /\ log' = IF w = Integrate THEN Append(log, <<"finished", 0>>) ELSE log
    /\ pc' = [pc EXCEPT ![w] = "idle"]
    /\ stale' = FALSE
    /\ inflight' = "none"
    /\ UNCHANGED <<stopped, count, idx, exp_stopped, queue, plotted,
                   stopReq, stopStep, emitted, afterStop, failed, uncaught,
                   cfg, acc, delivered>>

\* run() has returned, or an exception has left it: the thread stops running
\* and QThread.finished is emitted to worker_has_finished.
ThreadFinish(w) ==
    /\ pc[w] = "exit"
    /\ Len(queue) < MaxQueue
    /\ queue' = emit(queue, Finished(w))
    /\ log' = IF w = Integrate THEN Append(log, <<"finished", 0>>) ELSE log
    /\ pc' = [pc EXCEPT ![w] = "idle"]
    /\ stale' = FALSE
    /\ inflight' = "none"
    /\ UNCHANGED <<stopped, count, idx, exp_stopped, ui, plotted,
                   stopReq, stopStep, emitted, afterStop, failed, uncaught, nfin,
                   cfg, acc, delivered>>

Next == single_measurement \/ set_integration_time \/ integrate_spectrum \/ continuous_spectrum
        \/ stop_measurement \/ Deliver
        \/ IntegrateBegin \/ IntegrateNext \/ IntegrateRead
        \/ IntegrateEmitData \/ IntegrateEmitProgress \/ IntegrateCheck
        \/ ContinuousBegin \/ ContinuousRead \/ ContinuousEmitData \/ ContinuousCheck
        \/ ThreadFinish(Integrate) \/ ThreadFinish(Continuous)

Spec == Init /\ [][Next]_vars
\* The program on every device whose raw scans take values in RawValues.
MeanInit == InitState /\ device \in [1..MaxCount -> RawValues]

MeanSpec == MeanInit /\ [][Next]_vars

\* Fairness the scheduling gives: the GUI thread's event loop keeps delivering
\* posted events, and a thread whose run() has returned finishes.
FairSpec == Spec /\ WF_vars(Deliver)
                 /\ WF_vars(ThreadFinish(Integrate))
                 /\ WF_vars(ThreadFinish(Continuous))

\* Fairness of the Integrate thread's first steps as well: a started thread
\* gets to run.
WorkerFairSpec == FairSpec /\ WF_vars(IntegrateBegin) /\ WF_vars(IntegrateNext)

\* ---------------------------------------------------------------- properties
\* The events from worker w that are still in the GUI thread's queue.
Pending(w) == {i \in 1..Len(queue) : queue[i].w = w}

\* Worker w has been started and its thread has finished.
Ended(w) == /\ pc[w] = "idle"
            /\ IF w = Integrate THEN log # <<>> ELSE emitted[w] > 0 \/ failed[w]

\* The Idle/UI-enabled state: start affordances enabled, stop disabled, no
\* worker running.
IdleUI == /\ ui.single_button /\ ui.integrate_button /\ ui.continuous_button
          /\ ~ui.stop_button
          /\ \A w \in Workers : ~isRunning(w)

\* C1: at most one of the two workers is running in every reachable state, so
\* the device is never being read by both workers at once.
C1_AtMostOneRunning ==
    /\ ~(isRunning(Integrate) /\ isRunning(Continuous))
    /\ ~(pc[Integrate] = "reading" /\ pc[Continuous] = "reading")

\* A Continuous read is in flight while the sink still shows a sample of an
\* Integrate run that has come and gone.
C1_Witness ==
    /\ pc[Continuous] = "reading"
    /\ plotted.w = Integrate /\ nfin[Integrate] = 1

\* C2 (as claimed): once stop has been routed to the running Continuous worker,
\* the worker emits at most one further Spectrum, and it never emits a
\* ProgressEvent.
C2_Claim ==
    /\ stopReq[Continuous] => afterStop[Continuous] <= 1
    /\ \A i \in Pending(Continuous) : queue[i].type # "progress"

\* C3 (as claimed): a stop requested before the flag check of step i < count
\* keeps the Integrate run from emitting more than i Spectrum values.
C3_Claim ==
    (stopStep >= 1 /\ stopStep < count) => emitted[Integrate] <= stopStep

\* The events of an unstopped Integrate run of k scans, in order.
ExpectedLog(k) ==
    [i \in 1..(2 * k + 1) |->
        IF i = 2 * k + 1 THEN <<"finished", 0>>
        ELSE IF i % 2 = 1 THEN <<"new_data", (i + 1) \div 2>>
        ELSE <<"progress", i \div 2>>]

IsPrefix(s, t) == Len(s) <= Len(t) /\ \A i \in 1..Len(s) : s[i] = t[i]

\* C4: an Integrate run of count k >= 1 that is not stopped and meets no device
\* failure emits Spectrum 1, ProgressEvent 1, ..., Spectrum k, ProgressEvent k
\* in that order and then exactly one completion event.
C4_UnstoppedRunEmitsAll ==
    (count >= 1 /\ ~stopReq[Integrate] /\ ~failed[Integrate]) =>
        /\ IsPrefix(log, ExpectedLog(count))
        /\ Ended(Integrate) => log = ExpectedLog(count)
        /\ nfin[Integrate] <= 1

\* An unstopped run of the largest explored count has ended and been handled.
C4_Witness ==
    /\ count = MaxCount /\ ~stopReq[Integrate] /\ ~failed[Integrate]
    /\ Ended(Integrate) /\ nfin[Integrate] = 1
    /\ log = ExpectedLog(MaxCount)

\* C6: the finished notification of a run is handled exactly once, and after
\* every Spectrum and ProgressEvent of that run: once it is handled nothing of
\* the worker is left to deliver, and in the queue it is behind every
\* emission of its worker.
C6_FinishedOnceAndLast ==
    \A w \in Workers :
        /\ nfin[w] <= 1
        /\ nfin[w] = 1 => (pc[w] = "idle" /\ Pending(w) = {})
        /\ \A i \in Pending(w) : queue[i].type = "finished" =>
              (pc[w] = "idle" /\ \A j \in Pending(w) : j <= i)
        /\ (Ended(w) /\ Pending(w) = {}) => nfin[w] = 1

\* A run that emitted has had its finished notification handled.
C6_Witness ==
    \E w \in Workers : nfin[w] = 1 /\ emitted[w] = MaxEmit

\* Completion status carried by a finished notification: QThread.finished has
\* no argument.
CompletionStatus(m) == "none"

\* C7 (as claimed): a DeviceError inside a worker's loop never leaves run()
\* uncaught, and the run's completion notification carries a failure status.
C7_Claim ==
    /\ \A w \in Workers : ~uncaught[w]
    /\ \A i \in 1..Len(queue) :
          (queue[i].type = "finished" /\ failed[queue[i].w]) =>
              CompletionStatus(queue[i]) = "failure"

\* C8: after a run has ended (run() returned, or an exception left it), the
\* Idle/UI-enabled state is eventually restored.
C8_IdleRestored ==
    \A w \in Workers : (pc[w] = "exit") ~> IdleUI

\* The UI is idle again after a Continuous run that a device failure ended.
C8_Witness ==
    IdleUI /\ failed[Continuous] /\ nfin[Continuous] = 1

\* C9 (as claimed): a stop call while no worker is running changes neither
\* StopFlag, nor a worker's state, nor the UI.
C9_Claim ==
    [][(stop_measurement /\ \A w \in Workers : ~isRunning(w)) =>
          UNCHANGED <<stopped, pc, ui>>]_vars

\* C9 (amended): a stop call while no worker is running leaves the workers'
\* states, the Continuous worker's StopFlag, the UI and the event queue as
\* they are, and sets the Integrate worker's StopFlag.
C9_IdleStopSetsIntegrateFlag ==
    [][(stop_measurement /\ \A w \in Workers : ~isRunning(w)) =>
          /\ UNCHANGED <<pc, ui, queue>>
          /\ stopped'[Continuous] = stopped[Continuous]
          /\ stopped'[Integrate]]_vars

\* The Integrate worker's flag is set although no stop was routed to its run:
\* the stop call came after the thread had finished.
C9_Witness ==
    /\ \A w \in Workers : ~isRunning(w)
    /\ Ended(Integrate) /\ ~stopReq[Integrate] /\ stopped[Integrate]

\* C10 (as claimed): from the start call on, a worker's StopFlag is false until
\* a stop request of that run sets it, and then stays true for the run.
C10_Claim ==
    \A w \in Workers : isRunning(w) => (stopped[w] = stopReq[w])
\* C11 (as claimed): while a worker is running, the foreground changes neither
\* the integration time applied to the device nor the worker's scan count.
C11_Claim ==
    [][(\E w \in Workers : isRunning(w)) =>
          (integration_time' = integration_time /\ count' = count)]_vars

\* C12: a Continuous run that meets no device failure does not leave its loop,
\* and so raises no completion event, before a stop request of that run, and
\* it has emitted at least one Spectrum by then.
C12_NoCompletionBeforeStop ==
    (~failed[Continuous] /\ (pc[Continuous] = "exit" \/ Ended(Continuous))) =>
        (stopReq[Continuous] /\ emitted[Continuous] >= 1)

\* A Continuous run has emitted MaxEmit or more values and then left its loop
\* on a stop request.
C12_Witness ==
    /\ pc[Continuous] = "exit" /\ ~failed[Continuous]
    /\ stopReq[Continuous] /\ emitted[Continuous] = MaxEmit
    /\ afterStop[Continuous] = 0

\* Sum of the raw scans 1..j of a run.
RECURSIVE SumRaw(_)
SumRaw(j) == IF j = 0 THEN 0 ELSE SumRaw(j - 1) + Raw(j)

\* The running mean of the raw scans 1..j.
RunningMean(j) == Mean(SumRaw(j), j)

\* C13: every Integrate Spectrum on its way to the sink or held by the sink
\* is the running mean of raw scans 1..j for its step j, and after an
\* unstopped run of count scans the sink holds the mean of all count scans.
C13_SinkHoldsRunningMean ==
    /\ \A i \in Pending(Integrate) :
          queue[i].type = "new_data" => queue[i].val = RunningMean(queue[i].idx)
    /\ plotted.w = Integrate =>
          (plotted.idx >= 1 /\ plotted.val = RunningMean(plotted.idx))
    /\ (/\ Ended(Integrate) /\ ~stopReq[Integrate] /\ ~failed[Integrate]
        /\ count >= 1 /\ Pending(Integrate) = {} /\ plotted.w = Integrate) =>
          plotted = [w |-> Integrate, idx |-> count, val |-> RunningMean(count)]

\* The sink holds the mean of MaxCount scans that are not all equal.
C13_Witness ==
    /\ Ended(Integrate) /\ ~stopReq[Integrate] /\ ~failed[Integrate]
    /\ count = MaxCount /\ nfin[Integrate] = 1
    /\ device[1] # device[MaxCount]
    /\ plotted = [w |-> Integrate, idx |-> MaxCount, val |-> RunningMean(MaxCount)]
C15_ReadIsEmittedBeforeCheck ==
    /\ [](inflight = "owed" => pc[Continuous] \in {"reading", "emit_data"})
    /\ [][(pc[Continuous] = "reading" /\ pc'[Continuous] # "reading") =>
             (failed'[Continuous] \/ pc'[Continuous] = "emit_data")]_vars
    /\ [][(pc[Continuous] = "emit_data" /\ pc'[Continuous] # "emit_data") =>
             /\ pc'[Continuous] = "check"
             /\ Len(queue') = Len(queue) + 1
             /\ queue'[Len(queue')].type = "new_data"
             /\ queue'[Len(queue')].w = Continuous]_vars

\* The read in flight at the stop request has been emitted, and the loop has
\* then been left.
C15_Witness ==
    inflight = "emitted" /\ pc[Continuous] = "exit" /\ afterStop[Continuous] = 1

\* The step numbers of worker w's Spectrum values waiting in the queue, in
\* queue order.
IsDataOf(w, m) == m.type = "new_data" /\ m.w = w
PendingData(w) ==
    LET d == SelectSeq(queue, LAMBDA m : IsDataOf(w, m))
    IN [i \in 1..Len(d) |-> d[i].idx]

\* The emission counter of w has not saturated.
Exact(w) == (w = Integrate /\ MaxCount <= MaxEmit) \/ emitted[w] < MaxEmit

\* C16: the Spectrum values a worker has emitted are exactly those the sink
\* has handled followed by those waiting in the queue, once each and in
\* emission order, and the sink holds the last one it handled.
C16_DeliveredOnceInOrder ==
    \A w \in Workers :
        Exact(w) =>
            /\ PendingData(w) =
                  [i \in 1..(emitted[w] - delivered[w]) |-> delivered[w] + i]
            /\ (delivered[w] >= 1 /\ plotted.w = w) => plotted.idx = delivered[w]

\* The sink is behind: two Spectrum values of a Continuous run wait in the queue.
C16_Witness ==
    /\ Exact(Continuous) /\ emitted[Continuous] >= 2
    /\ Len(PendingData(Continuous)) >= 2

\* C17: an Integrate run of count 0 never reads the device and emits nothing,
\* and it reaches its completion: its finished notification is handled.
C17_ZeroCountCompletes ==
    /\ []((count = 0 /\ (isRunning(Integrate) \/ Ended(Integrate))) =>
            /\ pc[Integrate] \in {"started", "next", "exit", "idle"}
            /\ emitted[Integrate] = 0
            /\ \A i \in Pending(Integrate) : queue[i].type = "finished"
            /\ IsPrefix(log, ExpectedLog(0)))
    /\ ((count = 0 /\ pc[Integrate] = "started") ~> (nfin[Integrate] = 1))

\* A run of count 0 has completed with the finished notification as its only event.
C17_Witness ==
    /\ count = 0 /\ Ended(Integrate) /\ nfin[Integrate] = 1
    /\ log = ExpectedLog(0) /\ emitted[Integrate] = 0
\* C18: a stop call made while one worker is running sets that worker's
\* StopFlag and leaves the other worker's StopFlag as it is.
C18_StopRoutesToRunningWorker ==
    [][stop_measurement =>
          /\ isRunning(Integrate) =>
                (stopped'[Integrate] /\ stopped'[Continuous] = stopped[Continuous])
          /\ isRunning(Continuous) =>
                (stopped'[Continuous] /\ stopped'[Integrate] = stopped[Integrate])]_vars

\* A stop has been routed to the running Continuous worker while the Integrate
\* worker's flag is still clear.
C18_Witness ==
    /\ isRunning(Continuous) /\ stopReq[Continuous] /\ stopped[Continuous]
    /\ ~stopped[Integrate]

\* A run of w is in progress: its thread is running, or its finished
\* notification has not been handled yet.
RunInProgress(w) ==
    isRunning(w) \/ \E i \in Pending(w) : queue[i].type = "finished"

\* C19: while a run is in progress the single, integrate and continuous
\* buttons are disabled and the stop button is enabled.
C19_ButtonsFollowRun ==
    \A w \in Workers :
        RunInProgress(w) =>
            /\ ~ui.single_button /\ ~ui.integrate_button /\ ~ui.continuous_button
            /\ ui.stop_button

\* A thread has finished after emitting, and its finished notification still
\* waits in the queue.
C19_Witness ==
    \E w \in Workers :
        ~isRunning(w) /\ RunInProgress(w) /\ emitted[w] >= 1 /\ ~ui.integrate_button

\* The progress bar shows the busy indicator.
Busy(u) == u.pb_min = 0 /\ u.pb_max = 0

\* C20 (as claimed): when the finished notification of a Continuous run has
\* been handled, the progress bar no longer shows the busy indicator.
C20_Claim ==
    [][(/\ queue # <<>> /\ Head(queue) = Finished(Continuous)
        /\ queue' = Tail(queue) /\ nfin'[Continuous] = 1) => ~Busy(ui')]_vars

\* The scan count alone is not changed while a worker is running.
CountFixedWhileRunning ==
    [][(\E w \in Workers : isRunning(w)) => count' = count]_vars
====
